---- MODULE Spec2Model ----
(***************************************************************************)
(* Model of the recipe-assistant repository: the agent module             *)
(* (PromptBasedAgent.py: index construction at import, the four tools),   *)
(* the Drive helpers (gdrive_utils.py) and the Streamlit script (app.py:  *)
(* session state, sidebar widgets, the chat input handler and the         *)
(* response renderer with its cached image fetch).                        *)
(*                                                                         *)
(* Strings on which the code does character work (regex split, strip,     *)
(* lower, substring test) are sequences of one-character strings; a       *)
(* literal of the source may appear as a single multi-character element   *)
(* when no operation looks inside it.                                      *)
(***************************************************************************)
EXTENDS Integers, Sequences, FiniteSets, TLC

\* ------------------------------------------------------------------ bounds
MaxPieces == 3
MaxTurns == 2
MaxTime == 300
MaxFiles == 2
MaxCalls == 2

\* ------------------------------------------------------- program constants
TTL == 300

None == <<"None">>

\* ------------------------------------------------------------ str helpers
Whitespace == {" ", "\n"}

RECURSIVE lstrip(_)
lstrip(s) ==
    IF s = <<>> THEN <<>>
    ELSE IF s[1] \in Whitespace THEN lstrip(Tail(s)) ELSE s

RECURSIVE rstrip(_)
rstrip(s) ==
    IF s = <<>> THEN <<>>
    ELSE IF s[Len(s)] \in Whitespace THEN rstrip(SubSeq(s, 1, Len(s) - 1)) ELSE s

strip(s) == rstrip(lstrip(s))

lower_char(c) ==
    CASE c = "A" -> "a"
      [] c = "D" -> "d"
      [] c = "F" -> "f"
      [] c = "P" -> "p"
      [] c = "S" -> "s"
      [] OTHER -> c

lower_folds_nothing(s) == s

lower(s) == [i \in 1..Len(s) |-> lower_char(s[i])]

\* Python's `term in name` on str: term occurs as a contiguous run of name.
contains(name, term) ==
    \E i \in 1..(Len(name) - Len(term) + 1) :
        SubSeq(name, i, i + Len(term) - 1) = term

\* --------------------------------------------------- sentinel tag pattern
\* _IMAGE_TAG = re.compile(r"\[RECIPE_IMAGE:([^\]]+)\]")
TAG_OPEN == <<"[", "R", "E", "C", "I", "P", "E", "_", "I", "M", "A", "G", "E", ":">>
TAG_CLOSE == "]"

\* least j >= k with s[j] = "]", 0 when there is none
RECURSIVE first_close(_, _)
first_close(s, k) ==
    IF k > Len(s) THEN 0
    ELSE IF s[k] = TAG_CLOSE THEN k
    ELSE first_close(s, k + 1)

\* index of the closing "]" of a match of the pattern starting at i, else 0:
\* the literal "[RECIPE_IMAGE:", then one or more characters other than "]",
\* then "]".
match_end(s, i) ==
    IF /\ i + Len(TAG_OPEN) - 1 <= Len(s)
       /\ SubSeq(s, i, i + Len(TAG_OPEN) - 1) = TAG_OPEN
    THEN LET j == first_close(s, i + Len(TAG_OPEN))
         IN IF j > i + Len(TAG_OPEN) THEN j ELSE 0
    ELSE 0

\* start of the leftmost match at or after pos, 0 when there is none
RECURSIVE next_match(_, _)
next_match(s, pos) ==
    IF pos > Len(s) THEN 0
    ELSE IF match_end(s, pos) # 0 THEN pos
    ELSE next_match(s, pos + 1)

RECURSIVE split_from(_, _)
split_from(s, pos) ==
    LET i == next_match(s, pos)
    IN IF i = 0 THEN << SubSeq(s, pos, Len(s)) >>
       ELSE LET j == match_end(s, i)
            IN << SubSeq(s, pos, i - 1), SubSeq(s, i + Len(TAG_OPEN), j - 1) >>
               \o split_from(s, j + 1)

\* a split that trims every piece it returns
split_trimmed(s) ==
    LET ps == split_from(s, 1) IN [k \in 1..Len(ps) |-> strip(ps[k])]

\* _IMAGE_TAG.split(response): text, file_id, text, file_id, ..., text
IMAGE_TAG_split(s) == split_from(s, 1)

\* ------------------------------------------------------------ tool results
Ret(v) == [raised |-> FALSE, value |-> v]
Raise(e) == [raised |-> TRUE, value |-> e]

NoCall == [name |-> "none", arg |-> <<>>, ext |-> Ret(<<>>)]

\* ---------------------------------------------------------- gdrive_utils
DriveError == <<"HttpError 404">>
BytesOf(file_id) == <<"bytes:">> \o file_id

\* download_bytes(file_id): the bytes, or the Drive/auth exception propagates
download_bytes(file_id, down) ==
    IF file_id \in down THEN Raise(DriveError) ELSE Ret(BytesOf(file_id))

\* -------------------------------------------------- cached image fetch
\* a fetch that stores nothing
fetch_uncached(file_id, cache, t, down) ==
    LET r == download_bytes(file_id, down)
    IN [raised |-> r.raised, value |-> r.value, cache |-> cache,
        called |-> << [id |-> file_id, ok |-> ~r.raised] >>]

\* @st.cache_data(ttl=300) def _fetch_drive_image(file_id): an entry younger
\* than TTL answers without a call; an exception is not stored.
fetch_drive_image(file_id, cache, t, down) ==
    IF file_id \in DOMAIN cache /\ t < cache[file_id].at + TTL
    THEN [raised |-> FALSE, value |-> cache[file_id].bytes, cache |-> cache,
          called |-> <<>>]
    ELSE LET r == download_bytes(file_id, down)
         IN [raised |-> r.raised, value |-> r.value,
             cache |-> IF r.raised THEN cache
                       ELSE (file_id :> [at |-> t, bytes |-> r.value]) @@ cache,
             called |-> << [id |-> file_id, ok |-> ~r.raised] >>]

\* ------------------------------------------------------ render_response
Markdown(text) == [kind |-> "markdown", body |-> text]
Image(bytes) == [kind |-> "image", body |-> bytes]
\* the warning sign of the source's literals (U+26A0 U+FE0F), as one element
WARNING_SIGN == "U+26A0,U+FE0F"

Warning(file_id, e) ==
    [kind |-> "warning",
     body |-> << WARNING_SIGN, " Could not load recipe image (" >> \o file_id
              \o << "): " >> \o e]

\* rs = [out, cache, called]; i is the 1-based position in parts
RECURSIVE render_parts(_, _, _, _, _)
render_parts(parts_, i, rs, t, down) ==
    IF i > Len(parts_) THEN rs
    ELSE IF (i - 1) % 2 = 0
    THEN render_parts(parts_, i + 1,
            IF strip(parts_[i]) # <<>>
            THEN [rs EXCEPT !.out = Append(@, Markdown(strip(parts_[i])))]
            ELSE rs, t, down)
    ELSE LET file_id == strip(parts_[i])
             f == fetch_drive_image(file_id, rs.cache, t, down)
         IN render_parts(parts_, i + 1,
               [out |-> Append(rs.out, IF f.raised THEN Warning(file_id, f.value)
                                       ELSE Image(f.value)),
                cache |-> f.cache,
                called |-> rs.called \o f.called], t, down)

\* the same loop without the try/except around the fetch
RECURSIVE render_parts_abort(_, _, _, _, _)
render_parts_abort(parts_, i, rs, t, down) ==
    IF i > Len(parts_) THEN rs
    ELSE IF (i - 1) % 2 = 0
    THEN render_parts_abort(parts_, i + 1,
            IF strip(parts_[i]) # <<>>
            THEN [rs EXCEPT !.out = Append(@, Markdown(strip(parts_[i])))]
            ELSE rs, t, down)
    ELSE LET file_id == strip(parts_[i])
             f == fetch_drive_image(file_id, rs.cache, t, down)
         IN IF f.raised
            THEN [rs EXCEPT !.called = @ \o f.called]
            ELSE render_parts_abort(parts_, i + 1,
                    [out |-> Append(rs.out, Image(f.value)),
                     cache |-> f.cache,
                     called |-> rs.called \o f.called], t, down)

render_response_abort(response, cache, t, down) ==
    render_parts_abort(IMAGE_TAG_split(response), 1,
                       [out |-> <<>>, cache |-> cache, called |-> <<>>], t, down)

render_response(response, cache, t, down) ==
    render_parts(IMAGE_TAG_split(response), 1,
                 [out |-> <<>>, cache |-> cache, called |-> <<>>], t, down)

\* ------------------------------------------------------ get_recipe_image
NO_FILE_ID == <<"No file_id provided.">>

get_recipe_image(file_id) ==
    IF strip(file_id) = <<>> THEN Ret(NO_FILE_ID)
    ELSE Ret(TAG_OPEN \o strip(file_id) \o << TAG_CLOSE >>)

\* ------------------------------------------------ _load_documents, _build_index
TXT == << ".", "t", "x", "t" >>
PDF == << ".", "p", "d", "f" >>
DOCX == << ".", "d", "o", "c", "x" >>
LOADERS == { TXT, PDF, DOCX }

Doc(source, page_content) == [source |-> source, page_content |-> page_content]

\* a file of rag/ is [name, suffix, load]; load says what its loader does
RECURSIVE load_files(_)
load_files(files) ==
    IF files = <<>> THEN <<>>
    ELSE LET f == Head(files)
         IN (IF lower(f.suffix) \notin LOADERS THEN <<>>
             ELSE IF f.load = "raise" THEN <<>>
             ELSE << Doc(f.name, << "t", "e", "x", "t", " " >>) >>)
            \o load_files(Tail(files))

\* Path(RAG_DIR).iterdir() raises when rag/ does not exist
load_documents(dir) ==
    IF ~dir.exists THEN Raise(<<"FileNotFoundError">>)
    ELSE Ret(load_files(dir.files))

build_index(dir, embed_ok) ==
    LET d == load_documents(dir)
    IN IF d.raised THEN d
       ELSE IF d.value = <<>> THEN Ret(None)
       ELSE IF ~embed_ok THEN Raise(<<"embedding model could not be loaded">>)
       ELSE Ret(<<"retriever">>)

load_system_prompt(readable) ==
    IF readable THEN Ret(<<"system prompt">>) ELSE Raise(<<"FileNotFoundError">>)

\* --------------------------------------------------------------- the tools
get_current_date(today) == Ret(today)

NO_DOCUMENTS == <<"No documents are available in the knowledge base.">>
NO_PASSAGES == <<"No relevant passages found.">>

RECURSIVE format_passages(_, _)
format_passages(results, i) ==
    IF i > Len(results) THEN <<>>
    ELSE (IF i > 1 THEN << "\n\n" >> ELSE <<>>)
         \o << "[", ToString(i), "] (source: " >> \o results[i].source
         \o << ")\n" >> \o strip(results[i].page_content)
         \o format_passages(results, i + 1)

\* the search run without looking at _retriever first
search_documents_unchecked(retr, query, found) ==
    IF retr = None
    THEN [raised |-> FALSE, invoked |-> 1,
          value |-> << "Error during document search: " >>
                    \o << "'NoneType' object has no attribute 'invoke'" >>]
    ELSE IF found.raised
    THEN [raised |-> FALSE, invoked |-> 1,
          value |-> << "Error during document search: " >> \o found.value]
    ELSE [raised |-> FALSE, invoked |-> 1,
          value |-> IF found.value = <<>> THEN NO_PASSAGES
                    ELSE format_passages(found.value, 1)]

\* found is what _retriever.invoke(query) does: Ret(documents) or Raise(e)
search_documents(retr, query, found) ==
    IF retr = None
    THEN [raised |-> FALSE, invoked |-> 0, value |-> NO_DOCUMENTS]
    ELSE IF found.raised
    THEN [raised |-> FALSE, invoked |-> 1,
          value |-> << "Error during document search: " >> \o found.value]
    ELSE [raised |-> FALSE, invoked |-> 1,
          value |-> IF found.value = <<>> THEN NO_PASSAGES
                    ELSE format_passages(found.value, 1)]

NOT_CONFIGURED == <<"Google Drive folder is not configured (GDRIVE_FOLDER_ID missing).">>
NO_IMAGES == <<"No recipe images found in the Google Drive folder.">>

\* [f for f in files if term in f["name"].lower()]
RECURSIVE filter_files(_, _)
filter_files(files, term) ==
    IF files = <<>> THEN <<>>
    ELSE (IF contains(lower(Head(files).name), term) THEN << Head(files) >> ELSE <<>>)
         \o filter_files(Tail(files), term)

\* "Available recipe images:\n" + "\n".join("- name  (id: id)" ...)
RECURSIVE format_files(_, _)
format_files(files, i) ==
    IF i > Len(files) THEN <<>>
    ELSE (IF i > 1 THEN << "\n" >> ELSE <<>>)
         \o << "- " >> \o files[i].name \o << "  (id: " >> \o files[i].id \o << ")" >>
         \o format_files(files, i + 1)

list_result(files, search) ==
    IF files = <<>> THEN NO_IMAGES
    ELSE IF search # <<>>
    THEN LET kept == filter_files(files, lower(search))
         IN IF kept = <<>>
            THEN << "No recipe images matched '" >> \o search \o << "'." >>
            ELSE << "Available recipe images:\n" >> \o format_files(kept, 1)
    ELSE << "Available recipe images:\n" >> \o format_files(files, 1)

\* the listing made outside any try
list_drive_recipes_unguarded(folder_id, search, listing) ==
    IF folder_id = <<>>
    THEN [raised |-> FALSE, listed |-> 0, value |-> NOT_CONFIGURED]
    ELSE IF listing.raised
    THEN [raised |-> TRUE, listed |-> 1, value |-> listing.value]
    ELSE [raised |-> FALSE, listed |-> 1, value |-> list_result(listing.value, search)]

\* listing is what gdrive_utils.list_image_files(folder) does:
\* Ret(file descriptors) or Raise(e)
list_drive_recipes(folder_id, search, listing) ==
    IF folder_id = <<>>
    THEN [raised |-> FALSE, listed |-> 0, value |-> NOT_CONFIGURED]
    ELSE IF listing.raised
    THEN [raised |-> FALSE, listed |-> 1,
          value |-> << "Error accessing Google Drive: " >> \o listing.value]
    ELSE [raised |-> FALSE, listed |-> 1, value |-> list_result(listing.value, search)]

\* ------------------------------------------------------- app.py helpers
\* Python truthiness of an optional str
truthy(v) == v # None /\ v # <<>>

\* an uploaded file is << type, data >>
\* file_to_base64: (base64 text of the content, type or "image/jpeg")
b64encode(data) == IF data = <<>> THEN <<>> ELSE << "b64:" >> \o data
file_to_base64(f) ==
    [b64 |-> b64encode(<< f[2] >>),
     mime |-> IF f[1] = "" THEN << "image/jpeg" >> ELSE << f[1] >>]

\* run_graph: the last message's content, or the exception of graph.invoke
run_graph(agent) == agent

UserEntry(text, image_b64, image_mime) ==
    [role |-> "user", content |-> text, image_b64 |-> image_b64,
     image_mime |-> image_mime]
AssistantEntry(response) == [role |-> "assistant", content |-> response]

\* sections 5 of the script: [st, rerun]; w holds the widgets and the world
\* of this run: uploader, snap, text, agent, down, t
sidebar(st, ev, w) ==
    IF ev = "clear"
    THEN [st |-> [st EXCEPT !.chat_history = <<>>, !.pending_b64 = None,
                            !.pending_mime = None, !.show_camera = FALSE],
          rerun |-> TRUE]
    ELSE LET s2 == IF w.uploader # None
                   THEN [st EXCEPT !.pending_b64 = file_to_base64(w.uploader).b64,
                                   !.pending_mime = file_to_base64(w.uploader).mime]
                   ELSE st
         IN IF ev = "toggle"
            THEN [st |-> [s2 EXCEPT !.show_camera = ~s2.show_camera], rerun |-> TRUE]
            ELSE IF s2.show_camera /\ ev = "snap"
            THEN [st |-> [s2 EXCEPT !.pending_b64 = file_to_base64(w.snap).b64,
                                    !.pending_mime = file_to_base64(w.snap).mime,
                                    !.show_camera = FALSE],
                  rerun |-> TRUE]
            ELSE IF truthy(s2.pending_b64) /\ ev = "remove"
            THEN [st |-> [s2 EXCEPT !.pending_b64 = None, !.pending_mime = None],
                  rerun |-> TRUE]
            ELSE [st |-> [s2 EXCEPT !.remove_shown = truthy(s2.pending_b64)],
                  rerun |-> FALSE]

\* section 7: every assistant message of the history is rendered again
RECURSIVE chat_history_render(_, _, _)
chat_history_render(st, i, w) ==
    IF i > Len(st.chat_history) THEN st
    ELSE LET msg == st.chat_history[i]
         IN IF msg.role = "assistant" /\ msg.content # <<>>
            THEN LET r == render_response(msg.content, st.img_cache, w.t, w.down)
                 IN chat_history_render(
                        [st EXCEPT !.img_cache = r.cache,
                                   !.called = @ \o r.called], i + 1, w)
            ELSE chat_history_render(st, i + 1, w)

\* the handler with the agent call outside any try
chat_input_unguarded(st, ev, w) ==
    LET user_input == IF ev = "submit" THEN w.text ELSE None
    IN IF truthy(user_input) \/ (truthy(st.pending_b64) /\ user_input # None)
       THEN LET text == IF truthy(user_input) THEN user_input ELSE <<>>
                s1 == [st EXCEPT
                         !.chat_history = Append(@, UserEntry(text, st.pending_b64,
                                                              st.pending_mime)),
                         !.pending_b64 = None, !.pending_mime = None]
                a == run_graph(w.agent)
            IN IF a.raised THEN [s1 EXCEPT !.agent_result = a]
               ELSE LET r == render_response(a.value, s1.img_cache, w.t, w.down)
                    IN [s1 EXCEPT !.agent_result = a, !.img_cache = r.cache,
                                  !.called = @ \o r.called,
                                  !.chat_history = Append(@, AssistantEntry(a.value))]
       ELSE st

\* section 8: the chat input handler
chat_input(st, ev, w) ==
    LET user_input == IF ev = "submit" THEN w.text ELSE None
    IN IF truthy(user_input) \/ (truthy(st.pending_b64) /\ user_input # None)
       THEN LET text == IF truthy(user_input) THEN user_input ELSE <<>>
                s1 == [st EXCEPT
                         !.chat_history = Append(@, UserEntry(text, st.pending_b64,
                                                              st.pending_mime)),
                         !.pending_b64 = None, !.pending_mime = None]
                a == run_graph(w.agent)
                response == IF a.raised
                            THEN << WARNING_SIGN, " Error: " >> \o a.value
                            ELSE a.value
                r == render_response(response, s1.img_cache, w.t, w.down)
            IN [s1 EXCEPT !.agent_result = a, !.img_cache = r.cache,
                          !.called = @ \o r.called,
                          !.chat_history = Append(@, AssistantEntry(response))]
       ELSE st

\* one execution of the script, st.rerun() included
RECURSIVE script(_, _, _)
script(st, ev, w) ==
    LET sb == sidebar(st, ev, w)
    IN IF sb.rerun THEN script(sb.st, "rerun", w)
       ELSE chat_input(chat_history_render(sb.st, 1, w), ev, w)

\* ==================================================================== state
VARIABLES
    \* renderer / tag protocol
    input,            \* the string handed to the operation under study
    phase,            \* "start", "tagged", "rendered"
    tag,              \* what get_recipe_image returned
    parts,            \* _IMAGE_TAG.split(response) of the last render
    out,              \* what the last render_response put on the page
    drive_down,       \* file ids whose download raises right now
    \* agent module
    pc,               \* "import", "ready", "crashed"
    rag_dir,          \* rag/: whether it exists, and the files in it
    prompt_file,      \* whether prompts/agent.prompt can be read
    GDRIVE_FOLDER_ID,
    retriever,        \* _retriever: None or "retriever"
    tool_call,        \* the last tool call: name, argument, external outcome
    tool_out,         \* its result: Ret(string) or Raise(exception)
    retriever_calls,  \* number of _retriever.invoke calls made
    drive_calls,      \* number of gdrive_utils.list_image_files calls made
    \* Streamlit script
    chat_history,
    pending_b64,
    pending_mime,
    show_camera,
    uploader,         \* the file held by the file_uploader widget, or None
    img_cache,        \* st.cache_data store of _fetch_drive_image
    now,              \* wall clock, seconds
    called,           \* download_bytes calls made by the last script run
    last_ok,          \* per file id, time of its latest successful download
    last_event,       \* the interaction that triggered the last script run
    agent_result,     \* outcome of the run_graph call of the last script run
    remove_shown      \* whether the last run drew the "Remove image" button

renderVars == << input, phase, tag, parts, out, drive_down >>
agentVars == << pc, rag_dir, prompt_file, GDRIVE_FOLDER_ID, retriever,
                tool_call, tool_out, retriever_calls, drive_calls >>
appVars == << chat_history, pending_b64, pending_mime, show_camera, uploader,
              img_cache, now, called, last_ok, last_event, agent_result,
              remove_shown >>
vars == << renderVars, agentVars, appVars >>

RenderIdle ==
    /\ input = <<>> /\ phase = "start" /\ tag = None /\ parts = <<>>
    /\ out = <<>> /\ drive_down = {}

AgentIdle ==
    /\ pc = "ready" /\ rag_dir = [exists |-> TRUE, files |-> <<>>]
    /\ prompt_file = TRUE
    /\ GDRIVE_FOLDER_ID = <<>> /\ retriever = None
    /\ tool_call = NoCall /\ tool_out = Ret(None)
    /\ retriever_calls = 0 /\ drive_calls = 0

AppIdle ==
    /\ chat_history = <<>> /\ pending_b64 = None /\ pending_mime = None
    /\ show_camera = FALSE /\ uploader = None /\ img_cache = <<>>
    /\ now = 0 /\ called = <<>> /\ last_ok = <<>>
    /\ last_event = "start" /\ agent_result = Ret(None)
    /\ remove_shown = FALSE

\* ============================================== renderer and tag protocol
Pieces == { TAG_OPEN, << TAG_CLOSE >>, << "x" >>, << " " >>,
            TAG_OPEN \o << "y", TAG_CLOSE >> }

RECURSIVE Flat(_)
Flat(ps) == IF ps = <<>> THEN <<>> ELSE Head(ps) \o Flat(Tail(ps))

Inputs == { Flat(ps) : ps \in UNION { [1..n -> Pieces] : n \in 0..MaxPieces } }

\* the stripped ids a split captured
captured_ids(ps) == { strip(ps[k]) : k \in { h \in 1..Len(ps) : h % 2 = 0 } }

InitRender ==
    /\ input \in Inputs
    /\ phase = "start" /\ tag = None /\ parts = <<>> /\ out = <<>>
    /\ drive_down = {}
    /\ AgentIdle /\ AppIdle

\* the agent calls get_recipe_image(input)
GetRecipeImage ==
    /\ phase = "start"
    /\ tag' = get_recipe_image(input).value
    /\ phase' = "tagged"
    /\ UNCHANGED << input, parts, out, drive_down, agentVars, appVars >>

\* render_response(response) on a cold cache, Drive failing for `down`
RenderOf(response) ==
    \E down \in SUBSET captured_ids(IMAGE_TAG_split(response)) :
        /\ parts' = IMAGE_TAG_split(response)
        /\ out' = render_response(response, <<>>, 0, down).out
        /\ drive_down' = down
        /\ phase' = "rendered"
        /\ UNCHANGED << input, tag, agentVars, appVars >>

\* the UI renders a response equal to input
RenderInput == phase = "start" /\ RenderOf(input)

\* the agent pasted the tag verbatim as its whole reply and the UI renders it
RenderTag == phase = "tagged" /\ tag # NO_FILE_ID /\ RenderOf(tag)

NextRender == GetRecipeImage \/ RenderInput \/ RenderTag

SpecRender == InitRender /\ [][NextRender]_vars

\* the response the last render worked on
Response == IF tag = None THEN input ELSE tag

\* text segments and ids put back together, each id wrapped as a tag again
RECURSIVE rewrap(_)
rewrap(ps) ==
    IF ps = <<>> THEN <<>>
    ELSE IF Len(ps) = 1 THEN ps[1]
    ELSE ps[1] \o TAG_OPEN \o ps[2] \o << TAG_CLOSE >>
         \o rewrap(SubSeq(ps, 3, Len(ps)))

\* C1: the split of a response alternates text (even Python positions) and
\* ids (odd positions), so it has odd length, and the text segments
\* concatenated with every id re-wrapped as [RECIPE_IMAGE:<id>] give back the
\* response exactly.
C1_RoundTrip ==
    phase = "rendered" =>
        /\ Len(parts) % 2 = 1
        /\ rewrap(parts) = Response

\* C1 witness: a response with two tags and text between them was split.
C1_Witness ==
    /\ phase = "rendered"
    /\ Len(parts) >= 5
    /\ parts[3] # <<>>
    /\ rewrap(parts) = Response

\* positions of parts that must show on the page: every id, and every text
\* segment that is not blank
Shown == { k \in 1..Len(parts) : k % 2 = 0 \/ strip(parts[k]) # <<>> }

\* C2: a download failure for one captured id gives a warning naming that id
\* and the error, and nothing else is lost: the page holds, in the order of
\* the response, the markdown of every non-blank text segment, the image of
\* every id whose download works and the warning of every id whose download
\* fails.
C2_PartialRender ==
    phase = "rendered" =>
        /\ Len(out) = Cardinality(Shown)
        /\ \A k \in Shown :
              out[Cardinality({ h \in Shown : h <= k })] =
                 IF k % 2 = 1 THEN Markdown(strip(parts[k]))
                 ELSE IF strip(parts[k]) \in drive_down
                      THEN Warning(strip(parts[k]), DriveError)
                      ELSE Image(BytesOf(strip(parts[k])))

\* C2 witness: a download failed and an image and a text after it were still
\* rendered.
C2_Witness ==
    /\ phase = "rendered"
    /\ \E i, j, k \in 1..Len(out) :
          /\ i < j /\ i < k
          /\ out[i].kind = "warning"
          /\ out[j].kind = "image"
          /\ out[k].kind = "markdown"

\* C5: a tag produced by get_recipe_image for a non-blank file_id holds an id
\* without "]", and the renderer's pattern captures exactly the trimmed
\* file_id that was passed.
C5_TagCarriesId ==
    /\ (tag # None /\ tag # NO_FILE_ID) =>
          \A k \in (Len(TAG_OPEN) + 1)..(Len(tag) - 1) : tag[k] # TAG_CLOSE
    /\ (phase = "rendered" /\ tag # None) =>
          parts = << <<>>, strip(input), <<>> >>

\* ============================================================ agent module
Suffixes == { TXT, << ".", "P", "D", "F" >>, << ".", "m", "d" >> }
RagFiles == { f \in [name : { << "f" >> }, suffix : Suffixes, load : { "ok", "raise" }] :
                 f.load = "raise" => f.suffix = TXT }
RagDirs == { [exists |-> FALSE, files |-> <<>>] }
           \cup { [exists |-> TRUE, files |-> fs] :
                    fs \in UNION { [1..n -> RagFiles] : n \in 0..MaxFiles } }

DriveFiles == { [id |-> << "1" >>, name |-> << "P", "a" >>, mimeType |-> "image/png"],
                [id |-> << "2" >>, name |-> << "s", "a" >>, mimeType |-> "image/jpeg"] }
Listings == { Raise(DriveError) }
            \cup { Ret(fs) : fs \in UNION { [1..n -> DriveFiles] : n \in 0..MaxFiles } }
Searches == { <<>>, << "p", "a" >>, << "A" >>, << "S" >>, << "z" >> }

Queries == { << "q" >> }
Passages == { Doc(<< "f", ".", "t", "x", "t" >>, << " ", "t", "e", "x", "t" >>),
              Doc(<< "g", ".", "p", "d", "f" >>, << "m", "o", "r", "e", "\n" >>) }
Founds == { Raise(<< "embedding failure" >>) }
          \cup { Ret(ds) : ds \in UNION { [1..n -> Passages] : n \in 0..2 } }

FileIds == { <<>>, << " " >>, << " ", "x", " " >>, << "x", TAG_CLOSE >> }

InitAgent ==
    /\ pc = "import"
    /\ rag_dir \in RagDirs
    /\ prompt_file \in BOOLEAN
    /\ GDRIVE_FOLDER_ID \in { <<>>, << "folder" >> }
    /\ retriever = None
    /\ tool_call = NoCall /\ tool_out = Ret(None)
    /\ retriever_calls = 0 /\ drive_calls = 0
    /\ RenderIdle /\ AppIdle

\* import PromptBasedAgent: _retriever = _build_index(), then
\* base_system_prompt = _load_system_prompt(); an exception of either ends
\* the import
Import ==
    /\ pc = "import"
    /\ \E embed_ok \in BOOLEAN :
          LET r == build_index(rag_dir, embed_ok)
              p == load_system_prompt(prompt_file)
          IN IF r.raised
             THEN pc' = "crashed" /\ retriever' = retriever
             ELSE /\ retriever' = r.value
                  /\ pc' = IF p.raised THEN "crashed" ELSE "ready"
    /\ UNCHANGED << rag_dir, prompt_file, GDRIVE_FOLDER_ID, tool_call, tool_out,
                    retriever_calls, drive_calls, renderVars, appVars >>

CallGetCurrentDate ==
    /\ pc = "ready"
    /\ \E today \in { << "2026-11-05" >> } :
          /\ tool_call' = [name |-> "get_current_date", arg |-> <<>>, ext |-> Ret(today)]
          /\ tool_out' = get_current_date(today)
    /\ UNCHANGED << pc, rag_dir, prompt_file, GDRIVE_FOLDER_ID, retriever,
                    retriever_calls, drive_calls, renderVars, appVars >>

CallSearchDocuments ==
    /\ pc = "ready"
    /\ retriever_calls < MaxCalls
    /\ \E query \in Queries, found \in Founds :
          LET r == search_documents(retriever, query, found)
          IN /\ tool_call' = [name |-> "search_documents", arg |-> query, ext |-> found]
             /\ tool_out' = [raised |-> r.raised, value |-> r.value]
             /\ retriever_calls' = retriever_calls + r.invoked
    /\ UNCHANGED << pc, rag_dir, prompt_file, GDRIVE_FOLDER_ID, retriever,
                    drive_calls, renderVars, appVars >>

CallListDriveRecipes ==
    /\ pc = "ready"
    /\ drive_calls < MaxCalls
    /\ \E search \in Searches, listing \in Listings :
          LET r == list_drive_recipes(GDRIVE_FOLDER_ID, search, listing)
          IN /\ tool_call' = [name |-> "list_drive_recipes", arg |-> search, ext |-> listing]
             /\ tool_out' = [raised |-> r.raised, value |-> r.value]
             /\ drive_calls' = drive_calls + r.listed
    /\ UNCHANGED << pc, rag_dir, prompt_file, GDRIVE_FOLDER_ID, retriever,
                    retriever_calls, renderVars, appVars >>

CallGetRecipeImage ==
    /\ pc = "ready"
    /\ \E file_id \in FileIds :
          /\ tool_call' = [name |-> "get_recipe_image", arg |-> file_id, ext |-> Ret(<<>>)]
          /\ tool_out' = get_recipe_image(file_id)
    /\ UNCHANGED << pc, rag_dir, prompt_file, GDRIVE_FOLDER_ID, retriever,
                    retriever_calls, drive_calls, renderVars, appVars >>

NextAgent ==
    \/ Import
    \/ CallGetCurrentDate
    \/ CallSearchDocuments
    \/ CallListDriveRecipes
    \/ CallGetRecipeImage

SpecAgent == InitAgent /\ [][NextAgent]_vars

\* C3: whatever the retriever and Drive do, every tool call ends with a
\* string handed back to the agent and never with an exception.
C3_ToolsReturnStrings ==
    tool_call.name # "none" =>
        /\ tool_out.raised = FALSE
        /\ tool_out.value \in Seq(STRING)

\* C3 witness: the Drive listing raised inside list_drive_recipes (folder
\* configured) and the tool still returned a string.
C3_Witness ==
    /\ tool_call.name = "list_drive_recipes"
    /\ GDRIVE_FOLDER_ID # <<>>
    /\ tool_call.ext.raised
    /\ tool_out.raised = FALSE

\* C4: no outcome of the external operations ends the program with an
\* uncaught exception, at startup or later.
C4_NeverCrashes == pc # "crashed"

\* rag/ exists and holds no file with a recognized extension
NoRecognizedFile ==
    /\ rag_dir.exists
    /\ \A k \in 1..Len(rag_dir.files) :
          LET sfx == rag_dir.files[k].suffix
          IN [i \in 1..Len(sfx) |-> lower_char(sfx[i])] \notin LOADERS

\* C7: with rag/ empty or holding only unrecognized extensions, no index is
\* built, every search_documents call returns the fixed message and the
\* retriever is never invoked.
C7_NoDocsFallback ==
    (NoRecognizedFile /\ pc = "ready") =>
        /\ retriever = None
        /\ retriever_calls = 0
        /\ tool_call.name = "search_documents" => tool_out = Ret(NO_DOCUMENTS)

\* C7 witness: rag/ holds only unrecognized files, other tools have been used
\* and search_documents answered with the fixed message.
C7_Witness ==
    /\ NoRecognizedFile /\ rag_dir.files # <<>> /\ pc = "ready"
    /\ drive_calls > 0
    /\ tool_call.name = "search_documents"
    /\ tool_out = Ret(NO_DOCUMENTS)

\* name holds term as a contiguous run, letter case ignored
HoldsIgnoringCase(name, term) ==
    \E i \in 1..(Len(name) - Len(term) + 1) :
        \A k \in 1..Len(term) : lower_char(name[i + k - 1]) = lower_char(term[k])

Bullet(f) == << "- " >> \o f.name \o << "  (id: " >> \o f.id \o << ")" >>

RECURSIVE Lines(_)
Lines(fs) ==
    IF fs = <<>> THEN <<>>
    ELSE IF Len(fs) = 1 THEN Bullet(fs[1])
    ELSE Lines(SubSeq(fs, 1, Len(fs) - 1)) \o << "\n" >> \o Bullet(fs[Len(fs)])

\* C8: list_drive_recipes decides in the order: folder not configured (fixed
\* message, no Drive call ever made), listing raised (error string), listing
\* empty (fixed message whatever the search), search given and no name holds
\* it ignoring case (message quoting the search), else the bulleted list of
\* exactly the files whose name holds the search ignoring case, in listing
\* order (all files for an empty search).
C8_ListOrder ==
    /\ GDRIVE_FOLDER_ID = <<>> => drive_calls = 0
    /\ tool_call.name = "list_drive_recipes" =>
          LET search == tool_call.arg
              listing == tool_call.ext
              hits == SelectSeq(listing.value,
                                LAMBDA f : HoldsIgnoringCase(f.name, search))
          IN tool_out =
                Ret(CASE GDRIVE_FOLDER_ID = <<>> -> NOT_CONFIGURED
                      [] GDRIVE_FOLDER_ID # <<>> /\ listing.raised ->
                            << "Error accessing Google Drive: " >> \o listing.value
                      [] GDRIVE_FOLDER_ID # <<>> /\ ~listing.raised
                         /\ listing.value = <<>> -> NO_IMAGES
                      [] GDRIVE_FOLDER_ID # <<>> /\ ~listing.raised
                         /\ listing.value # <<>> /\ hits = <<>> ->
                            << "No recipe images matched '" >> \o search \o << "'." >>
                      [] OTHER -> << "Available recipe images:\n" >> \o Lines(hits))

\* C8 witness: a search in capitals kept one of two listed files whose name
\* holds it in lower case.
C8_Witness ==
    /\ tool_call.name = "list_drive_recipes"
    /\ GDRIVE_FOLDER_ID # <<>>
    /\ tool_call.arg = << "S" >>
    /\ ~tool_call.ext.raised
    /\ Len(tool_call.ext.value) = 2
    /\ tool_out.value = << "Available recipe images:\n" >>
                        \o Bullet([id |-> << "2" >>, name |-> << "s", "a" >>])

\* ========================================================= Streamlit script
TagOf(file_id) == TAG_OPEN \o file_id \o << TAG_CLOSE >>
Replies == { << "o", "k" >>, << "a", " " >> \o TagOf(<< "x" >>) \o << "b" >> }
AgentOutcomes == { Ret(r) : r \in Replies } \cup { Raise(<< "RateLimitError" >>) }
ImageIds == { << "x" >> }
Texts == { << "h", "i" >> }
Uploads == { << "image/png", "U" >> }
Snaps == { << "", "S" >> }

InitApp ==
    /\ chat_history = <<>> /\ pending_b64 = None /\ pending_mime = None
    /\ show_camera = FALSE /\ uploader = None /\ img_cache = <<>>
    /\ now = 0 /\ called = <<>> /\ last_ok = <<>>
    /\ last_event = "start" /\ agent_result = Ret(None)
    /\ remove_shown = FALSE
    /\ RenderIdle /\ AgentIdle

\* a user interaction ev runs the script once; the widgets hold up (the
\* uploader), snap and text, the agent would do `agent`, Drive fails for down
Run(ev, up, snap, text, agent, down) ==
    LET st == [chat_history |-> chat_history, pending_b64 |-> pending_b64,
               pending_mime |-> pending_mime, show_camera |-> show_camera,
               img_cache |-> img_cache, called |-> <<>>,
               agent_result |-> Ret(None), remove_shown |-> FALSE]
        w == [uploader |-> up, snap |-> snap, text |-> text, agent |-> agent,
              down |-> down, t |-> now]
    IN \E e \in { script(st, ev, w) } :
       LET oks == { e.called[i].id : i \in { h \in 1..Len(e.called) : e.called[h].ok } }
       IN
       /\ chat_history' = e.chat_history
       /\ pending_b64' = e.pending_b64
       /\ pending_mime' = e.pending_mime
       /\ show_camera' = e.show_camera
       /\ img_cache' = e.img_cache
       /\ called' = e.called
       /\ agent_result' = e.agent_result
       /\ remove_shown' = e.remove_shown
       /\ last_ok' = [id \in DOMAIN last_ok \cup oks |->
                         IF id \in oks THEN now ELSE last_ok[id]]
       /\ uploader' = up
       /\ last_event' = ev

NoSnap == << "", "" >>

Upload ==
    /\ \E f \in Uploads, down \in SUBSET ImageIds :
          Run("upload", f, NoSnap, None, Ret(<<>>), down)
    /\ UNCHANGED << now, renderVars, agentVars >>

Unload ==
    /\ uploader # None
    /\ \E down \in SUBSET ImageIds :
          Run("unload", None, NoSnap, None, Ret(<<>>), down)
    /\ UNCHANGED << now, renderVars, agentVars >>

ClearConversation ==
    /\ \E down \in SUBSET ImageIds :
          Run("clear", uploader, NoSnap, None, Ret(<<>>), down)
    /\ UNCHANGED << now, renderVars, agentVars >>

ToggleCamera ==
    /\ \E down \in SUBSET ImageIds :
          Run("toggle", uploader, NoSnap, None, Ret(<<>>), down)
    /\ UNCHANGED << now, renderVars, agentVars >>

TakePhoto ==
    /\ show_camera
    /\ \E f \in Snaps, down \in SUBSET ImageIds :
          Run("snap", uploader, f, None, Ret(<<>>), down)
    /\ UNCHANGED << now, renderVars, agentVars >>

RemoveImage ==
    /\ remove_shown
    /\ \E down \in SUBSET ImageIds :
          Run("remove", uploader, NoSnap, None, Ret(<<>>), down)
    /\ UNCHANGED << now, renderVars, agentVars >>

Submit ==
    /\ Len(chat_history) < 2 * MaxTurns
    /\ \E text \in Texts, agent \in AgentOutcomes, down \in SUBSET ImageIds :
          Run("submit", uploader, NoSnap, text, agent, down)
    /\ UNCHANGED << now, renderVars, agentVars >>

Tick ==
    /\ now + 150 <= MaxTime
    /\ now' = now + 150
    /\ last_event' = "tick"
    /\ UNCHANGED << chat_history, pending_b64, pending_mime, show_camera, uploader,
                    img_cache, called, last_ok, agent_result, remove_shown,
                    renderVars, agentVars >>

NextApp ==
    \/ Upload
    \/ Unload
    \/ ClearConversation
    \/ ToggleCamera
    \/ TakePhoto
    \/ RemoveImage
    \/ Submit
    \/ Tick

SpecApp == InitApp /\ [][NextApp]_vars

Alternates(h) ==
    /\ Len(h) % 2 = 0
    /\ \A i \in 1..Len(h) : h[i].role = IF i % 2 = 1 THEN "user" ELSE "assistant"

\* C6: every submission, whether the agent call raised or not, appends
\* exactly one user entry and then one assistant entry to chat_history, the
\* assistant entry being the warning sign, " Error: " and the exception text
\* when the call raised; chat_history always alternates user/assistant
\* starting with user.
C6_SubmissionRecorded ==
    [][ /\ Alternates(chat_history')
        /\ last_event' = "submit" =>
              LET n == Len(chat_history)
              IN /\ Len(chat_history') = n + 2
                 /\ SubSeq(chat_history', 1, n) = chat_history
                 /\ chat_history'[n + 1].role = "user"
                 /\ chat_history'[n + 2].role = "assistant"
                 /\ agent_result'.raised =>
                       chat_history'[n + 2].content =
                          << WARNING_SIGN, " Error: " >> \o agent_result'.value
      ]_vars

\* C6 witness: a second submission whose agent call raised was recorded
\* after a first one that was answered.
C6_Witness ==
    /\ last_event = "submit"
    /\ agent_result.raised
    /\ Len(chat_history) = 4
    /\ chat_history[2].content \in Replies
    /\ chat_history[3].role = "user"
    /\ chat_history[4] =
          AssistantEntry(<< WARNING_SIGN, " Error: ", "RateLimitError" >>)

\* C9: a script run calls download_bytes for a file id only if no download
\* of that id succeeded less than TTL seconds before, earlier runs and the
\* same run included.
C9_NoEarlyDownload ==
    [][ now' = now =>
          \A i \in 1..Len(called') :
              /\ ~(/\ called'[i].id \in DOMAIN last_ok
                   /\ now' < last_ok[called'[i].id] + TTL)
              /\ \A h \in 1..(i - 1) :
                    ~(called'[h].id = called'[i].id /\ called'[h].ok)
      ]_vars

\* C9 witness: a run re-rendered a history holding two tags of an id whose
\* download succeeded less than TTL seconds ago, and made no download.
C9_Witness ==
    /\ last_event = "toggle"
    /\ called = <<>>
    /\ Len(chat_history) = 4
    /\ chat_history[2].content = chat_history[4].content
    /\ captured_ids(IMAGE_TAG_split(chat_history[2].content)) = { << "x" >> }
    /\ << "x" >> \in DOMAIN last_ok
    /\ last_ok[<< "x" >>] < now
    /\ now < last_ok[<< "x" >>] + TTL

\* C10: a submission clears the pending image; "Remove image" leaves no
\* image pending; and a message submitted while no image was pending before
\* the submission carries no image.
C10_ImageSentOnce ==
    [][ /\ last_event' = "submit" => (pending_b64' = None /\ pending_mime' = None)
        /\ last_event' = "remove" => pending_b64' = None
        /\ (last_event' = "submit" /\ pending_b64 = None) =>
              chat_history'[Len(chat_history) + 1].image_b64 = None
      ]_vars

====
